---- MODULE Spec2Model ----
(***************************************************************************)
(* Model of openedx/core/djangoapps/user_api/views.py: the registration    *)
(* form description built by RegistrationView.__init__ / get, and the      *)
(* registration submission handled by RegistrationView.post.               *)
(*                                                                         *)
(* Python values are represented as follows.                               *)
(*   dict            a function whose domain is the set of its keys        *)
(*   None / {}       EmptyDict where only truthiness is read               *)
(*   list            a sequence                                            *)
(*   str             a string; the boolean False used as a field default   *)
(*                   is written PyFalse                                    *)
(* A form field is projected onto the properties that the view sets or     *)
(* overrides: name, label, type, defaultValue, instructions, required and  *)
(* the keys of restrictions.                                               *)
(***************************************************************************)
EXTENDS Naturals, Sequences, FiniteSets, TLC

VARIABLES
    site_extra_fields,      \* configuration_helpers.get_value('REGISTRATION_EXTRA_FIELDS')
    settings_extra_fields,  \* settings.REGISTRATION_EXTRA_FIELDS
    site_field_order,       \* configuration_helpers.get_value('REGISTRATION_FIELD_ORDER')
    settings_field_order,   \* settings.REGISTRATION_FIELD_ORDER
    extension_form,         \* get_registration_extension_form(): <<>> when there is none
    view,                   \* the RegistrationView instance, once constructed
    form,                   \* outcome of the last RegistrationView.get
    accounts,               \* the persisted user accounts
    pc,                     \* position of each registration submission
    submission,             \* each submission's request.POST and the view's copy of it
    response,               \* each submission's outcome
    preferences,            \* the UserPreference rows
    email_opt_ins,          \* the opt-in preferences update_email_opt_in keeps
    roles,                  \* the forum Role rows
    api_response            \* outcome of the last preference or directory request

formVars == <<site_extra_fields, settings_extra_fields, site_field_order,
              settings_field_order, extension_form, view, form>>
postVars == <<accounts, pc, submission, response>>
apiVars == <<preferences, email_opt_ins, roles, api_response>>
vars == <<site_extra_fields, settings_extra_fields, site_field_order,
          settings_field_order, extension_form, view, form,
          accounts, pc, submission, response,
          preferences, email_opt_ins, roles, api_response>>

----------------------------------------------------------------------------
(* Python helpers *)

EmptyDict == [k \in {} |-> ""]

PyFalse == "False"

\* dict.update: the keys of b win
DictUpdate(a, b) ==
    [k \in (DOMAIN a) \cup (DOMAIN b) |-> IF k \in DOMAIN b THEN b[k] ELSE a[k]]

\* dict.get(key, default)
DictGet(d, key, default) == IF key \in DOMAIN d THEN d[key] ELSE default

\* set(list)
ToSet(seq) == {seq[i] : i \in 1..Len(seq)}

\* truthiness of a str
Truthy(s) == s # ""

\* str.upper(), on the strings the model supplies as country codes
upper(s) ==
    CASE s = "fr" -> "FR"
      [] s = "us" -> "US"
      [] OTHER -> s

----------------------------------------------------------------------------
(* Bounds *)

\* the most error messages a ValidationError carries for one field
MaxErrors == 2

----------------------------------------------------------------------------
(* RegistrationView class attributes *)

DEFAULT_FIELDS == <<"email", "name", "username", "password">>

EXTRA_FIELDS ==
    <<"confirm_email", "first_name", "last_name", "city", "state", "country",
      "gender", "year_of_birth", "level_of_education", "company", "title",
      "mailing_address", "goals", "honor_code", "terms_of_service">>

valid_fields == DEFAULT_FIELDS \o EXTRA_FIELDS

----------------------------------------------------------------------------
(* FormDescription (user_api/helpers.py) *)

ALLOWED_TYPES == {"text", "email", "select", "textarea", "checkbox", "password", "hidden"}

OVERRIDE_FIELD_PROPERTIES ==
    {"label", "type", "defaultValue", "placeholder", "instructions", "required",
     "restrictions", "options", "supplementalLink", "supplementalText"}

\* FormDescription.FIELD_TYPE_MAP: form-field class -> wire field type
FIELD_TYPE_MAP ==
    [CharField |-> "text", PasswordInput |-> "password", ChoiceField |-> "select",
     TypedChoiceField |-> "select", Textarea |-> "textarea",
     BooleanField |-> "checkbox", EmailField |-> "email"]

\* FormDescription(method, submit_url): no fields, no overrides; error names the
\* exception that ended the construction of the form, "" while there is none
NewFormDescription == [fields |-> <<>>, _field_overrides |-> EmptyDict, error |-> ""]

\* keyword defaults of FormDescription.add_field
AddFieldDefaults ==
    [label |-> "", field_type |-> "text", default |-> "", instructions |-> "",
     required |-> TRUE, restrictions |-> {}]

\* FormDescription.override_field_properties(field_name, **kwargs)
override_field_properties(fd, field_name, kwargs) ==
    LET k1 == IF "field_type" \in DOMAIN kwargs
              THEN DictUpdate(kwargs, [type |-> kwargs["field_type"]]) ELSE kwargs
        k2 == IF "default" \in DOMAIN k1
              THEN DictUpdate(k1, [defaultValue |-> k1["default"]]) ELSE k1
        kept == [p \in (DOMAIN k2) \cap OVERRIDE_FIELD_PROPERTIES |-> k2[p]]
        old == DictGet(fd._field_overrides, field_name, EmptyDict)
    IN  IF fd.error # "" THEN fd
        ELSE [fd EXCEPT !._field_overrides =
                 DictUpdate(fd._field_overrides,
                            [n \in {field_name} |-> DictUpdate(old, kept)])]

\* FormDescription.add_field(name, **kwargs): the field's dict, updated with the
\* overrides recorded for that name, is appended to the fields
add_field(fd, name, kwargs) ==
    LET a == DictUpdate(AddFieldDefaults, kwargs)
        field_dict == [name |-> name, label |-> a["label"], type |-> a["field_type"],
                       defaultValue |-> a["default"], instructions |-> a["instructions"],
                       required |-> a["required"], restrictions |-> a["restrictions"]]
        overrides == DictGet(fd._field_overrides, name, EmptyDict)
    IN  IF fd.error # "" THEN fd
        ELSE IF a["field_type"] \notin ALLOWED_TYPES
        THEN [fd EXCEPT !.error = "InvalidFieldError"]
        ELSE [fd EXCEPT !.fields = Append(fd.fields, DictUpdate(field_dict, overrides))]

----------------------------------------------------------------------------
(* RegistrationView.__init__ *)

VISIBILITY == {"required", "optional", "hidden"}

\* variant: honor_code gets no default
extra_fields_setting_as_configured(site, settings) ==
    IF DOMAIN site = {} THEN settings ELSE site

\* self._extra_fields_setting: the site configuration's value, or the Django
\* setting when that one is empty, with honor_code defaulting to "required"
extra_fields_setting(site, settings) ==
    LET s == IF DOMAIN site = {} THEN settings ELSE site
    IN  DictUpdate(s, [honor_code |-> DictGet(s, "honor_code", "required")])

\* variant: the lookup forgets the "hidden" default of a field that is not configured
setting_misconfigured_nodefault(setting) ==
    \E i \in 1..Len(EXTRA_FIELDS) :
        DictGet(setting, EXTRA_FIELDS[i], "None") \notin VISIBILITY

\* the check that raises ImproperlyConfigured
setting_misconfigured(setting) ==
    \E i \in 1..Len(EXTRA_FIELDS) :
        DictGet(setting, EXTRA_FIELDS[i], "hidden") \notin VISIBILITY

\* variant: the configured order is kept whatever fields it names
field_order_unchecked(site_order, settings_order) ==
    IF site_order # <<>> THEN site_order
    ELSE IF settings_order # <<>> THEN settings_order
    ELSE valid_fields

\* self.field_order
field_order(site_order, settings_order) ==
    LET configured == IF site_order # <<>> THEN site_order
                      ELSE IF settings_order # <<>> THEN settings_order
                      ELSE valid_fields
    IN  IF ToSet(valid_fields) # ToSet(configured) THEN valid_fields ELSE configured

\* variant: every configured field is visible, a hidden one too
_is_field_visible_configured(setting, field_name) ==
    DictGet(setting, field_name, "None") # "None"

_is_field_visible(setting, field_name) ==
    DictGet(setting, field_name, "None") \in {"required", "optional"}

_is_field_required(setting, field_name) ==
    DictGet(setting, field_name, "None") = "required"

----------------------------------------------------------------------------
(* RegistrationView._add_<field_name>_field *)

\* honor_code: its label says which documents the checkbox covers
honor_code_label(setting) ==
    IF _is_field_visible(setting, "terms_of_service")
    THEN "I agree to the edX Honor Code"
    ELSE "I agree to the edX Terms of Service and Honor Code"

\* the keyword arguments each handler passes to add_field, apart from required
handler_kwargs(setting, field_name) ==
    CASE field_name = "email" ->
           [field_type |-> "email", label |-> "Email",
            instructions |-> "This is what you will use to login.",
            restrictions |-> {"min_length", "max_length"}]
      [] field_name = "name" ->
           [label |-> "Full Name",
            instructions |-> "This name will be used on any certificates that you earn.",
            restrictions |-> {"max_length"}]
      [] field_name = "username" ->
           [label |-> "Public Username",
            instructions |-> "The name that will identify you in your courses. It cannot be changed later.",
            restrictions |-> {"min_length", "max_length"}]
      [] field_name = "password" ->
           [label |-> "Password", field_type |-> "password",
            restrictions |-> {"min_length", "max_length"}]
      [] field_name = "confirm_email" -> [label |-> "Confirm Email"]
      [] field_name = "level_of_education" ->
           [label |-> "Highest level of education completed", field_type |-> "select"]
      [] field_name = "gender" -> [label |-> "Gender", field_type |-> "select"]
      [] field_name = "year_of_birth" -> [label |-> "Year of birth", field_type |-> "select"]
      [] field_name = "mailing_address" ->
           [label |-> "Mailing address", field_type |-> "textarea"]
      [] field_name = "goals" ->
           [label |-> "Tell us why you're interested in edX", field_type |-> "textarea"]
      [] field_name = "city" -> [label |-> "City"]
      [] field_name = "state" -> [label |-> "State/Province/Region"]
      [] field_name = "company" -> [label |-> "Company"]
      [] field_name = "title" -> [label |-> "Title"]
      [] field_name = "first_name" -> [label |-> "First Name"]
      [] field_name = "last_name" -> [label |-> "Last Name"]
      [] field_name = "country" -> [label |-> "Country", field_type |-> "select"]
      [] field_name = "honor_code" ->
           [label |-> honor_code_label(setting), field_type |-> "checkbox",
            default |-> PyFalse]
      [] field_name = "terms_of_service" ->
           [label |-> "I agree to the edX Terms of Service", field_type |-> "checkbox",
            default |-> PyFalse]

\* _add_country_field: a country code set as the default is upper-cased first
country_default_upper(fd) ==
    LET default_country ==
            DictGet(DictGet(fd._field_overrides, "country", EmptyDict), "defaultValue", "")
    IN  IF Truthy(default_country)
        THEN override_field_properties(fd, "country", [default |-> upper(default_country)])
        ELSE fd

\* self.field_handlers[field_name](form_desc, required=required)
field_handler(setting, fd, field_name, required) ==
    LET fd1 == IF field_name = "country" THEN country_default_upper(fd) ELSE fd
    IN  add_field(fd1, field_name,
                  DictUpdate(handler_kwargs(setting, field_name), [required |-> required]))

----------------------------------------------------------------------------
(* RegistrationView._apply_third_party_auth_overrides                      *)
(* A request context tpa carries what the third_party_auth and enterprise  *)
(* collaborators answer for the request:                                     *)
(*   enabled            third_party_auth.is_enabled()                       *)
(*   running_pipeline   third_party_auth.pipeline.get(request) is not None  *)
(*   has_provider       Registry.get_from_pipeline(...) is not None         *)
(*   name, skip_registration_form   attributes of the provider              *)
(*   form_data          provider.get_register_form_data(...)                *)
(*   enterprise_customer  enterprise_customer_for_request(request)          *)

\* variant: third_party_auth.is_enabled() is not asked
provider_active_unless_disabled(tpa) == tpa.running_pipeline /\ tpa.has_provider

provider_active(tpa) == tpa.enabled /\ tpa.running_pipeline /\ tpa.has_provider

hide_registration_fields_except_tos(tpa) ==
    tpa.skip_registration_form /\ tpa.enterprise_customer

\* variant: the default is overridden only for the fields that are hidden
tpa_override_field_hidden_only(fd, tpa, field_name) ==
    LET field_overrides == tpa.form_data
    IN  IF /\ field_name \in DOMAIN field_overrides
           /\ field_name \notin {"terms_of_service", "honor_code"}
           /\ Truthy(field_overrides[field_name])
           /\ hide_registration_fields_except_tos(tpa)
        THEN override_field_properties(
                 fd, field_name,
                 [default |-> field_overrides[field_name], field_type |-> "hidden",
                  label |-> "", instructions |-> ""])
        ELSE fd

\* one iteration of the loop over DEFAULT_FIELDS + EXTRA_FIELDS
tpa_override_field(fd, tpa, field_name) ==
    LET field_overrides == tpa.form_data
    IN  IF field_name \in DOMAIN field_overrides
        THEN LET fd1 == override_field_properties(
                            fd, field_name, [default |-> field_overrides[field_name]])
             IN  IF /\ field_name \notin {"terms_of_service", "honor_code"}
                    /\ Truthy(field_overrides[field_name])
                    /\ hide_registration_fields_except_tos(tpa)
                 THEN override_field_properties(
                          fd1, field_name,
                          [field_type |-> "hidden", label |-> "", instructions |-> ""])
                 ELSE fd1
        ELSE fd

RECURSIVE tpa_override_fields(_, _, _)
tpa_override_fields(fd, tpa, i) ==
    IF i > Len(valid_fields) THEN fd
    ELSE tpa_override_fields(tpa_override_field(fd, tpa, valid_fields[i]), tpa, i + 1)

\* variant: the password is hidden before the provider's values are applied
apply_overrides_password_first(fd, tpa) ==
    IF provider_active(tpa)
    THEN LET fd1 == override_field_properties(
                        fd, "password",
                        [default |-> "", field_type |-> "hidden", required |-> FALSE,
                         label |-> "", instructions |-> "", restrictions |-> {}])
             fd2 == tpa_override_fields(fd1, tpa, 1)
         IN  add_field(fd2, "social_auth_provider",
                       [field_type |-> "hidden", label |-> "",
                        default |-> IF Truthy(tpa.name) THEN tpa.name ELSE "Third Party",
                        required |-> FALSE])
    ELSE fd

_apply_third_party_auth_overrides(fd, tpa) ==
    IF provider_active(tpa)
    THEN LET fd1 == tpa_override_fields(fd, tpa, 1)
             fd2 == override_field_properties(
                        fd1, "password",
                        [default |-> "", field_type |-> "hidden", required |-> FALSE,
                         label |-> "", instructions |-> "", restrictions |-> {}])
         IN  add_field(fd2, "social_auth_provider",
                       [field_type |-> "hidden", label |-> "",
                        default |-> IF Truthy(tpa.name) THEN tpa.name ELSE "Third Party",
                        required |-> FALSE])
    ELSE fd

----------------------------------------------------------------------------
(* RegistrationView.get *)

PyNone == "None"

\* variant: the wire type is always looked up in FIELD_TYPE_MAP
custom_field_type_mapped(field) == DictGet(FIELD_TYPE_MAP, field.class, PyNone)

\* the wire type of a field of the extension form: the serialization option
\* when the form's Meta gives one, else the FIELD_TYPE_MAP entry of its class
custom_field_type(field) ==
    IF field.field_type_option # PyNone THEN field.field_type_option
    ELSE DictGet(FIELD_TYPE_MAP, field.class, PyNone)

\* "if not field_type": None and "" are both falsy
field_type_missing(field_type) == field_type = PyNone \/ field_type = ""

\* variant: default fields take their required flag from the setting, as extra fields do
RECURSIVE add_default_fields_by_setting(_, _, _)
add_default_fields_by_setting(setting, fd, i) ==
    IF i > Len(DEFAULT_FIELDS) THEN fd
    ELSE add_default_fields_by_setting(
             setting,
             field_handler(setting, fd, DEFAULT_FIELDS[i],
                           _is_field_required(setting, DEFAULT_FIELDS[i])),
             i + 1)

\* for field_name in self.DEFAULT_FIELDS: handler(form_desc, required=True)
RECURSIVE add_default_fields(_, _, _)
add_default_fields(setting, fd, i) ==
    IF i > Len(DEFAULT_FIELDS) THEN fd
    ELSE add_default_fields(
             setting, field_handler(setting, fd, DEFAULT_FIELDS[i], TRUE), i + 1)

\* the restrictions of a field of the extension form: max_length and
\* min_length, each when the field has a truthy one
custom_restrictions(field) ==
    (IF field.max_length # 0 THEN {"max_length"} ELSE {})
        \cup (IF field.min_length # 0 THEN {"min_length"} ELSE {})

\* for field_name, field in custom_form.fields.items()
RECURSIVE add_custom_fields(_, _, _)
add_custom_fields(fd, custom_form, i) ==
    IF i > Len(custom_form) \/ fd.error # "" THEN fd
    ELSE LET field == custom_form[i]
             field_type == custom_field_type(field)
         IN  IF field_type_missing(field_type)
             THEN [fd EXCEPT !.error = "ImproperlyConfigured"]
             ELSE add_custom_fields(
                      add_field(fd, field.name,
                                [label |-> field.label,
                                 default |-> field.default_option,
                                 field_type |-> field_type,
                                 instructions |-> field.help_text,
                                 required |-> field.required,
                                 restrictions |-> custom_restrictions(field)]),
                      custom_form, i + 1)

\* for field_name in self.EXTRA_FIELDS: add the visible ones
RECURSIVE add_extra_fields(_, _, _)
add_extra_fields(setting, fd, i) ==
    IF i > Len(EXTRA_FIELDS) THEN fd
    ELSE LET field_name == EXTRA_FIELDS[i]
         IN  add_extra_fields(
                 setting,
                 IF _is_field_visible(setting, field_name)
                 THEN field_handler(setting, fd, field_name,
                                    _is_field_required(setting, field_name))
                 ELSE fd,
                 i + 1)

\* for field_name in self.field_order: default fields, then the visible ones
RECURSIVE add_ordered_fields(_, _, _, _)
add_ordered_fields(setting, order, fd, i) ==
    IF i > Len(order) THEN fd
    ELSE LET field_name == order[i]
         IN  add_ordered_fields(
                 setting, order,
                 IF field_name \in ToSet(DEFAULT_FIELDS)
                 THEN field_handler(setting, fd, field_name, TRUE)
                 ELSE IF _is_field_visible(setting, field_name)
                 THEN field_handler(setting, fd, field_name,
                                    _is_field_required(setting, field_name))
                 ELSE fd,
                 i + 1)

\* the form description RegistrationView.get builds for a request
get_form_desc(v, custom_form, tpa) ==
    LET setting == v._extra_fields_setting
        fd0 == _apply_third_party_auth_overrides(NewFormDescription, tpa)
    IN  IF custom_form # <<>>
        THEN add_extra_fields(
                 setting,
                 add_custom_fields(add_default_fields(setting, fd0, 1), custom_form, 1),
                 1)
        ELSE add_ordered_fields(setting, v.field_order, fd0, 1)

----------------------------------------------------------------------------
(* The configurations and requests the form specification ranges over *)

\* every dict with keys among keys and values among values
Dicts(keys, values) == UNION {[K -> values] : K \in SUBSET keys}

\* settings.REGISTRATION_EXTRA_FIELDS: any visibility, or the unknown value
\* "mandatory", for two extra fields; "favorite_color" is no registration field
SettingsExtraFields ==
    {DictUpdate(a, b) :
        a \in Dicts({"honor_code", "country"}, VISIBILITY \cup {"mandatory"}),
        b \in Dicts({"favorite_color"}, {"mandatory"})}

\* the site configuration's REGISTRATION_EXTRA_FIELDS; EmptyDict: none
SiteExtraFields ==
    {EmptyDict, [country |-> "optional"], [city |-> "mandatory"]}

RECURSIVE Reverse(_)
Reverse(seq) == IF seq = <<>> THEN <<>> ELSE Append(Reverse(Tail(seq)), Head(seq))

\* settings.REGISTRATION_FIELD_ORDER; <<>>: none.  A permutation of the valid
\* fields, an order that misses fields, one that repeats a field and one that
\* names an unknown field
SettingsFieldOrders ==
    {<<>>,
     Reverse(valid_fields),
     <<"username", "email">>,
     valid_fields \o <<"email">>,
     valid_fields \o <<"favorite_color">>}

\* the site configuration's REGISTRATION_FIELD_ORDER; <<>>: none
SiteFieldOrders == {<<>>, EXTRA_FIELDS \o DEFAULT_FIELDS}

\* a declared field of the extension form.  max_length and min_length are 0
\* when the field has none (None and 0 are both falsy); field_type_option and
\* default_option are the field_type and default that Meta.serialization_options
\* gives for the field, PyNone when it gives none
FormField(name, class, label, required, max, min, help_text, type, default) ==
    [name |-> name, class |-> class, label |-> label, required |-> required,
     max_length |-> max, min_length |-> min, help_text |-> help_text,
     field_type_option |-> type, default_option |-> default]

\* the extension form's declared fields; <<>>: no extension form.  IntegerField
\* has no entry in FIELD_TYPE_MAP, "number" is no type of ALLOWED_TYPES and ""
\* is a field_type option that is given but empty
ExtensionForms ==
    {<<>>,
     <<FormField("favorite_movie", "CharField", "Fav Flick", TRUE, 100, 3,
                 "Your favourite film", PyNone, PyNone),
       FormField("favorite_editor", "ChoiceField", "Favorite Editor", FALSE, 0, 0,
                 "", PyNone, "vim")>>,
     <<FormField("favorite_movie", "CharField", "Fav Flick", TRUE, 100, 0,
                 "", PyNone, PyNone),
       FormField("age", "IntegerField", "Age", FALSE, 0, 0, "", PyNone, PyNone)>>,
     <<FormField("age", "IntegerField", "Age", FALSE, 0, 0, "", "text", PyNone),
       FormField("favorite_movie", "CharField", "Fav Flick", TRUE, 0, 0,
                 "", "textarea", "Brazil")>>,
     <<FormField("favorite_editor", "ChoiceField", "Favorite Editor", FALSE, 0, 0,
                 "", PyNone, PyNone),
       FormField("favorite_movie", "CharField", "Fav Flick", TRUE, 0, 0,
                 "", "", PyNone)>>,
     <<FormField("favorite_movie", "CharField", "Fav Flick", TRUE, 0, 0,
                 "", "number", PyNone),
       FormField("age", "IntegerField", "Age", FALSE, 0, 0, "", PyNone, PyNone)>>,
     <<FormField("age", "IntegerField", "Age", FALSE, 0, 0, "", PyNone, PyNone),
       FormField("favorite_movie", "CharField", "Fav Flick", TRUE, 0, 0,
                 "", "number", PyNone)>>}

\* what a provider's get_register_form_data returns
ProviderFormData ==
    {EmptyDict,
     [email |-> "ann@example.com", name |-> "Ann", username |-> "",
      favorite_movie |-> "Brazil"],
     [country |-> "fr", password |-> "secret", honor_code |-> "true"]}

NoProvider ==
    [name |-> "", skip_registration_form |-> FALSE, form_data |-> EmptyDict,
     enterprise_customer |-> FALSE]

\* a pipeline and provider that third-party auth, being disabled, never asks
DisabledProviders ==
    [enabled : {FALSE}, running_pipeline : {TRUE}, has_provider : {TRUE},
     name : {"Google"}, skip_registration_form : {TRUE},
     form_data : ProviderFormData \ {EmptyDict}, enterprise_customer : {TRUE}]

\* the requests: third-party auth disabled, no running pipeline, a pipeline
\* without a provider, and every provider
Requests ==
    {DictUpdate(NoProvider, r) :
        r \in {[enabled |-> FALSE, running_pipeline |-> FALSE, has_provider |-> FALSE],
               [enabled |-> TRUE, running_pipeline |-> FALSE, has_provider |-> FALSE],
               [enabled |-> TRUE, running_pipeline |-> TRUE, has_provider |-> FALSE]}}
    \cup DisabledProviders
    \cup
    [enabled : {TRUE}, running_pipeline : {TRUE}, has_provider : {TRUE},
     name : {"", "Google"}, skip_registration_form : BOOLEAN,
     form_data : ProviderFormData, enterprise_customer : BOOLEAN]

----------------------------------------------------------------------------
(* State machine of the registration form *)

NoView == [state |-> "none", _extra_fields_setting |-> EmptyDict, field_order |-> <<>>]

NoForm == [status |-> "none", fields |-> <<>>, request |-> DictUpdate(NoProvider,
              [enabled |-> FALSE, running_pipeline |-> FALSE, has_provider |-> FALSE])]

\* no registration submission is modelled next to the form
PostIdle ==
    /\ accounts = <<>>
    /\ pc = EmptyDict
    /\ submission = EmptyDict
    /\ response = EmptyDict

\* an HTTP response of a preference or directory endpoint, with the request
\* it answers
ApiResponse(endpoint, request, status, content_type, body) ==
    [endpoint |-> endpoint, request |-> request, status |-> status,
     content_type |-> content_type, body |-> body]

NoApiResponse == ApiResponse("none", EmptyDict, 0, "", {})

\* no preference or directory request is served
ApiIdle ==
    /\ preferences = {}
    /\ email_opt_ins = {}
    /\ roles = {}
    /\ api_response = NoApiResponse

Init ==
    /\ site_extra_fields \in SiteExtraFields
    /\ settings_extra_fields \in SettingsExtraFields
    /\ site_field_order \in SiteFieldOrders
    /\ settings_field_order \in SettingsFieldOrders
    /\ extension_form \in ExtensionForms
    /\ view = NoView
    /\ form = NoForm
    /\ PostIdle
    /\ ApiIdle

\* RegistrationView.__init__
Construct ==
    /\ view.state = "none"
    /\ LET setting == extra_fields_setting(site_extra_fields, settings_extra_fields)
       IN  view' = IF setting_misconfigured(setting)
                   THEN [NoView EXCEPT !.state = "ImproperlyConfigured"]
                   ELSE [state |-> "constructed",
                         _extra_fields_setting |-> setting,
                         field_order |-> field_order(site_field_order, settings_field_order)]
    /\ UNCHANGED <<site_extra_fields, settings_extra_fields, site_field_order,
                   settings_field_order, extension_form, form>>
    /\ UNCHANGED postVars
    /\ UNCHANGED apiVars

\* RegistrationView.get; Django's as_view builds a view instance per request,
\* so an instance serves one request
Get(request) ==
    /\ view.state = "constructed"
    /\ form.status = "none"
    /\ LET fd == get_form_desc(view, extension_form, request)
       IN  form' = IF fd.error # ""
                   THEN [status |-> fd.error, fields |-> <<>>, request |-> request]
                   ELSE [status |-> "ok", fields |-> fd.fields, request |-> request]
    /\ UNCHANGED <<site_extra_fields, settings_extra_fields, site_field_order,
                   settings_field_order, extension_form, view>>
    /\ UNCHANGED postVars
    /\ UNCHANGED apiVars

Next ==
    \/ Construct
    \/ \E request \in Requests : Get(request)

Spec == Init /\ [][Next]_vars

----------------------------------------------------------------------------
(* RegistrationView.post *)

\* accounts.api.check_account_exists(email=..., username=...): the list of the
\* fields whose value an existing account already uses
check_account_exists(accts, email, username) ==
    (IF email # PyNone /\ \E i \in 1..Len(accts) : accts[i].email = email
     THEN <<"email">> ELSE <<>>)
    \o
    (IF username # PyNone /\ \E i \in 1..Len(accts) : accts[i].username = username
     THEN <<"username">> ELSE <<>>)

\* accounts.EMAIL_CONFLICT_MSG.format(...) and USERNAME_CONFLICT_MSG.format(...)
conflict_messages(email, username) ==
    [email |-> [format |-> "EMAIL_CONFLICT_MSG", value |-> email],
     username |-> [format |-> "USERNAME_CONFLICT_MSG", value |-> username]]

\* variant: only the first conflicting field is reported
conflict_errors_first(conflicts, email, username) ==
    [field \in {conflicts[1]} |->
        <<[user_message |-> conflict_messages(email, username)[field]]>>]

\* errors = {field: [{"user_message": conflict_messages[field]}] for field in conflicts}
conflict_errors(conflicts, email, username) ==
    [field \in ToSet(conflicts) |->
        <<[user_message |-> conflict_messages(email, username)[field]]>>]

\* variant: the honor code value replaces a submitted terms_of_service
honor_code_shim_overwrite(d) ==
    IF Truthy(DictGet(d, "honor_code", ""))
    THEN DictUpdate(d, [terms_of_service |-> d["honor_code"]])
    ELSE d

\* if data.get("honor_code") and "terms_of_service" not in data:
\*     data["terms_of_service"] = data["honor_code"]
honor_code_shim(d) ==
    IF Truthy(DictGet(d, "honor_code", "")) /\ "terms_of_service" \notin DOMAIN d
    THEN DictUpdate(d, [terms_of_service |-> d["honor_code"]])
    ELSE d

\* django.core.exceptions.NON_FIELD_ERRORS
NON_FIELD_ERRORS == "__all__"

NoUser == [email |-> "", username |-> ""]

\* what create_account_with_params does: it returns a user or raises
Outcome(kind, user, field, message_dict) ==
    [kind |-> kind, user |-> user, field |-> field, message_dict |-> message_dict]

NotInvoked == Outcome("not invoked", NoUser, "", EmptyDict)

\* the error lists a ValidationError may carry: messages 1..n for a field
ErrorList(n) == [i \in 1..n |-> i]

MessageDicts ==
    {[field \in fields |-> ErrorList(n)] :
        fields \in {{"username"}, {"email", "username"}, {NON_FIELD_ERRORS}},
        n \in 1..MaxErrors}

\* variant: the account is saved without looking at the existing accounts
create_account_unchecked(accts, d) ==
    {Outcome("PermissionDenied", NoUser, "", EmptyDict)}
    \cup {Outcome("ValidationError", NoUser, "", md) : md \in MessageDicts}
    \cup (IF "email" \in DOMAIN d /\ "username" \in DOMAIN d
          THEN {Outcome("user", [email |-> d["email"], username |-> d["username"]],
                        "", EmptyDict)}
          ELSE {})

\* student.views.create_account_with_params(request, data): the outcomes it may
\* have.  Account creation may be forbidden, the values may fail validation,
\* a username or email that an account already uses raises
\* AccountValidationError for that field, and otherwise the user is created.
create_account_with_params(accts, d) ==
    {Outcome("PermissionDenied", NoUser, "", EmptyDict)}
    \cup {Outcome("ValidationError", NoUser, "", md) : md \in MessageDicts}
    \cup (IF "email" \in DOMAIN d /\ "username" \in DOMAIN d
          THEN IF \E i \in 1..Len(accts) : accts[i].username = d["username"]
               THEN {Outcome("AccountValidationError", NoUser, "username", EmptyDict)}
               ELSE IF \E i \in 1..Len(accts) : accts[i].email = d["email"]
               THEN {Outcome("AccountValidationError", NoUser, "email", EmptyDict)}
               ELSE {Outcome("user", [email |-> d["email"], username |-> d["username"]],
                             "", EmptyDict)}
          ELSE {})

\* an HTTP response; cookies: set_logged_in_cookies was called on it
Response(status, kind, body, cookies) ==
    [status |-> status, kind |-> kind, body |-> body, cookies |-> cookies]

NoResponse == Response(0, "none", EmptyDict, FALSE)

\* variant: the existence check stops the submission only on an email conflict
conflict_stops_email_only(conflicts) == "email" \in ToSet(conflicts)

\* if conflicts: return JsonResponse(errors, status=409)
conflict_stops(conflicts) == conflicts # <<>>

\* variant: PermissionDenied is swallowed and the success response follows
create_response_permissive(outcome) ==
    CASE outcome.kind = "AccountValidationError" ->
           Response(409, "json",
                    [field \in {outcome.field} |-> <<[user_message |-> "err.message"]>>],
                    FALSE)
      [] outcome.kind = "ValidationError" ->
           IF NON_FIELD_ERRORS \in DOMAIN outcome.message_dict
           THEN Response(500, "exception", [exception |-> "AssertionError"], FALSE)
           ELSE Response(400, "json",
                         [field \in DOMAIN outcome.message_dict |->
                             [i \in 1..Len(outcome.message_dict[field]) |->
                                 [user_message |-> outcome.message_dict[field][i]]]],
                         FALSE)
      [] OTHER -> Response(200, "json", [success |-> TRUE], TRUE)

\* the try/except around create_account_with_params and the success response.
\* A failed assert raises AssertionError, which post does not catch: the
\* framework answers 500.
create_response(outcome) ==
    CASE outcome.kind = "AccountValidationError" ->
           Response(409, "json",
                    [field \in {outcome.field} |-> <<[user_message |-> "err.message"]>>],
                    FALSE)
      [] outcome.kind = "ValidationError" ->
           IF NON_FIELD_ERRORS \in DOMAIN outcome.message_dict
           THEN Response(500, "exception", [exception |-> "AssertionError"], FALSE)
           ELSE Response(400, "json",
                         [field \in DOMAIN outcome.message_dict |->
                             [i \in 1..Len(outcome.message_dict[field]) |->
                                 [user_message |-> outcome.message_dict[field][i]]]],
                         FALSE)
      [] outcome.kind = "PermissionDenied" ->
           Response(403, "text", [content |-> "Account creation not allowed."], FALSE)
      [] outcome.kind = "user" ->
           Response(200, "json", [success |-> TRUE], TRUE)

----------------------------------------------------------------------------
(* State machine of registration submissions.  The existence check and the  *)
(* account creation are two database accesses of post: submissions handled   *)
(* by different workers interleave between them.                             *)

\* the workers that handle submissions; two are enough for one submission to
\* be handled between the existence check and the account creation of another
Workers == {"w1", "w2"}

Emails == {"ann@example.com", "bob@example.com"}
Usernames == {"ann", "bob"}

\* request.POST: each parameter may be absent; honor_code may be empty
PostData ==
    {DictUpdate(DictUpdate(e, u), DictUpdate(h, t)) :
        e \in Dicts({"email"}, Emails), u \in Dicts({"username"}, Usernames),
        h \in Dicts({"honor_code"}, {"", "true"}),
        t \in Dicts({"terms_of_service"}, {"false"})}

NoSubmission ==
    [POST |-> EmptyDict, data |-> EmptyDict, conflicts |-> <<>>, outcome |-> NotInvoked]

\* a view constructed from the default configuration
DefaultView ==
    [state |-> "constructed",
     _extra_fields_setting |-> extra_fields_setting(EmptyDict, EmptyDict),
     field_order |-> field_order(<<>>, <<>>)]

InitPost ==
    /\ site_extra_fields = EmptyDict
    /\ settings_extra_fields = EmptyDict
    /\ site_field_order = <<>>
    /\ settings_field_order = <<>>
    /\ extension_form = <<>>
    /\ view = DefaultView
    /\ form = NoForm
    /\ accounts = <<>>
    /\ pc = [p \in Workers |-> "idle"]
    /\ submission = [p \in Workers |-> NoSubmission]
    /\ response = [p \in Workers |-> NoResponse]
    /\ ApiIdle

\* post, up to the call of create_account_with_params: the copy of the data,
\* the existence check, the 409 response on a conflict, the honor code shim
PostCheck(p, POST) ==
    /\ pc[p] = "idle"
    /\ LET email == DictGet(POST, "email", PyNone)
           username == DictGet(POST, "username", PyNone)
           conflicts == check_account_exists(accounts, email, username)
       IN  IF conflict_stops(conflicts)
           THEN /\ submission' = [submission EXCEPT ![p] =
                       [POST |-> POST, data |-> POST, conflicts |-> conflicts,
                        outcome |-> NotInvoked]]
                /\ response' = [response EXCEPT ![p] =
                       Response(409, "json", conflict_errors(conflicts, email, username),
                                FALSE)]
                /\ pc' = [pc EXCEPT ![p] = "done"]
           ELSE /\ submission' = [submission EXCEPT ![p] =
                       [POST |-> POST, data |-> honor_code_shim(POST),
                        conflicts |-> conflicts, outcome |-> NotInvoked]]
                /\ response' = response
                /\ pc' = [pc EXCEPT ![p] = "create"]
    /\ accounts' = accounts
    /\ UNCHANGED formVars
    /\ UNCHANGED apiVars

\* post, from the call of create_account_with_params to the response
PostCreate(p) ==
    /\ pc[p] = "create"
    /\ \E outcome \in create_account_with_params(accounts, submission[p].data) :
          /\ accounts' = IF outcome.kind = "user"
                         THEN Append(accounts, outcome.user) ELSE accounts
          /\ submission' = [submission EXCEPT ![p].outcome = outcome]
          /\ response' = [response EXCEPT ![p] = create_response(outcome)]
    /\ pc' = [pc EXCEPT ![p] = "done"]
    /\ UNCHANGED formVars
    /\ UNCHANGED apiVars

\* the response has been sent; the worker takes the next submission
Done(p) ==
    /\ pc[p] = "done"
    /\ pc' = [pc EXCEPT ![p] = "idle"]
    /\ submission' = [submission EXCEPT ![p] = NoSubmission]
    /\ response' = [response EXCEPT ![p] = NoResponse]
    /\ accounts' = accounts
    /\ UNCHANGED formVars
    /\ UNCHANGED apiVars

NextPost ==
    \/ \E p \in Workers, POST \in PostData : PostCheck(p, POST)
    \/ \E p \in Workers : PostCreate(p)
    \/ \E p \in Workers : Done(p)

SpecPost == InitPost /\ [][NextPost]_vars

----------------------------------------------------------------------------
(* Properties of registration submissions (specification SpecPost) *)

EmailUsed(email) == \E i \in 1..Len(accounts) : accounts[i].email = email
UsernameUsed(username) == \E i \in 1..Len(accounts) : accounts[i].username = username

\* create_account_with_params was called for the submission of worker p
CreationInvoked(p) == pc[p] = "create" \/ submission[p].outcome # NotInvoked

\* C4: no two created accounts share the same email and no two share the
\* same username, however the submissions interleave.
C4_AccountsUnique ==
    \A i, j \in 1..Len(accounts) :
        i # j => /\ accounts[i].email # accounts[j].email
                 /\ accounts[i].username # accounts[j].username

\* one worker created an account between the other's check and its creation
C4_Witness ==
    /\ Len(accounts) = 1
    /\ pc["w1"] = "done" /\ submission["w1"].outcome.kind = "AccountValidationError"
    /\ submission["w1"].conflicts = <<>>
    /\ pc["w2"] = "done" /\ submission["w2"].outcome.kind = "user"

\* C5: a submission whose email or username an existing account uses is
\* answered 409 with a JSON body whose keys are exactly the conflicting
\* fields, each mapped to a one-element list holding a user_message; an
\* already-used email gives the key "email".
C5_ConflictResponse ==
    [][\A p \in Workers :
          (pc[p] = "idle" /\ pc'[p] # "idle") =>
              LET POST == submission'[p].POST
                  conflicts == submission'[p].conflicts
              IN  /\ ("email" \in DOMAIN POST /\ EmailUsed(POST["email"])) =>
                        /\ response'[p].status = 409
                        /\ "email" \in DOMAIN response'[p].body
                  /\ conflicts # <<>> =>
                        /\ pc'[p] = "done"
                        /\ response'[p].status = 409
                        /\ response'[p].kind = "json"
                        /\ DOMAIN response'[p].body = ToSet(conflicts)
                        /\ \A f \in ToSet(conflicts) :
                              /\ Len(response'[p].body[f]) = 1
                              /\ DOMAIN response'[p].body[f][1] = {"user_message"}
                              /\ response'[p].body[f][1].user_message.value
                                    = DictGet(POST, f, PyNone)]_vars

C5_Witness ==
    \E p \in Workers :
        /\ pc[p] = "done"
        /\ response[p].status = 409
        /\ submission[p].outcome = NotInvoked
        /\ DOMAIN response[p].body = {"email", "username"}
        /\ EmailUsed(DictGet(submission[p].POST, "email", PyNone))

\* C6: post calls account creation only if the existence check reports no
\* conflict: on a conflict creation is not invoked, no account is created and
\* no logged-in cookies are set.
C6_NoCreationOnConflict ==
    [][\A p \in Workers :
          /\ (pc[p] = "idle" /\ pc'[p] # "idle") =>
                LET conflict == submission'[p].conflicts # <<>>
                IN  /\ accounts' = accounts
                    /\ conflict =>
                          /\ pc'[p] = "done"
                          /\ submission'[p].outcome = NotInvoked
                          /\ ~response'[p].cookies
                    /\ ~conflict => pc'[p] = "create"
          /\ (pc[p] = "create" /\ pc'[p] # "create") => submission[p].conflicts = <<>>
      ]_vars

C6_Witness ==
    \E p \in Workers :
        /\ pc[p] = "done"
        /\ submission[p].conflicts = <<"username">>
        /\ submission[p].outcome = NotInvoked
        /\ ~response[p].cookies
        /\ Len(accounts) = 1

\* C7 as stated: when honor_code is submitted without terms_of_service, the data
\* passed to account creation has terms_of_service equal to honor_code; a
\* submitted terms_of_service is passed on unchanged.
C7_TermsFollowHonorCode ==
    \A p \in Workers :
        CreationInvoked(p) =>
            LET POST == submission[p].POST
                passed == submission[p].data
            IN  /\ ("honor_code" \in DOMAIN POST /\ "terms_of_service" \notin DOMAIN POST)
                      => /\ "terms_of_service" \in DOMAIN passed
                         /\ passed["terms_of_service"] = POST["honor_code"]
                /\ "terms_of_service" \in DOMAIN POST
                      => /\ "terms_of_service" \in DOMAIN passed
                         /\ passed["terms_of_service"] = POST["terms_of_service"]

\* C7 (amended): when honor_code is submitted with a non-empty value and
\* without terms_of_service, the data passed to account creation has
\* terms_of_service equal to honor_code; when honor_code is absent or empty
\* and terms_of_service is absent, no terms_of_service is passed; a submitted
\* terms_of_service is passed on unchanged, as is every other parameter.
C7_TermsFollowNonEmptyHonorCode ==
    \A p \in Workers :
        CreationInvoked(p) =>
            LET POST == submission[p].POST
                passed == submission[p].data
            IN  /\ "terms_of_service" \notin DOMAIN POST =>
                      IF "honor_code" \in DOMAIN POST /\ POST["honor_code"] # ""
                      THEN /\ "terms_of_service" \in DOMAIN passed
                           /\ passed["terms_of_service"] = POST["honor_code"]
                      ELSE "terms_of_service" \notin DOMAIN passed
                /\ \A k \in DOMAIN POST : k \in DOMAIN passed /\ passed[k] = POST[k]

C7_Witness ==
    \E p \in Workers :
        /\ submission[p].outcome.kind = "user"
        /\ DictGet(submission[p].POST, "honor_code", "") = "true"
        /\ "terms_of_service" \notin DOMAIN submission[p].POST
        /\ DictGet(submission[p].data, "terms_of_service", "") = "true"

\* C8: when account creation raises a ValidationError, post returns 400 with
\* a JSON object keyed by field name in which each field carries only its
\* first error message, as a one-element list.
C8_FirstErrorPerField ==
    \A p \in Workers :
        (pc[p] = "done" /\ submission[p].outcome.kind = "ValidationError"
             /\ NON_FIELD_ERRORS \notin DOMAIN submission[p].outcome.message_dict) =>
            LET message_dict == submission[p].outcome.message_dict
            IN  /\ response[p].status = 400
                /\ DOMAIN response[p].body = DOMAIN message_dict
                /\ \A field \in DOMAIN message_dict :
                      response[p].body[field]
                          = <<[user_message |-> message_dict[field][1]]>>

\* C9: every failure of a submission is translated to a response: the status
\* is always one of 200, 400, 403, 409, also when the ValidationError carries
\* non-field errors.
C9_StatusAlwaysTranslated ==
    \A p \in Workers :
        pc[p] = "done" =>
            /\ response[p].status \in {200, 400, 403, 409}
            /\ response[p].kind # "exception"

\* C10: post sets logged-in cookies and returns {"success": true} with status
\* 200 if and only if account creation returned a user; no error path sets
\* the cookies, and no success response precedes the creation of the account.
C10_SuccessIffUserCreated ==
    \A p \in Workers :
        pc[p] = "done" =>
            LET created == submission[p].outcome.kind = "user"
                success == /\ response[p].status = 200
                           /\ response[p].kind = "json"
                           /\ DOMAIN response[p].body = {"success"}
                           /\ response[p].body["success"]
            IN  /\ created <=> success
                /\ created <=> response[p].cookies
                /\ response[p].status = 200 <=> created
                /\ success =>
                      \E i \in 1..Len(accounts) :
                          accounts[i] = submission[p].outcome.user

C10_Witness ==
    /\ pc["w1"] = "done" /\ response["w1"].status = 200 /\ response["w1"].cookies
    /\ pc["w2"] = "done" /\ response["w2"].status = 403 /\ ~response["w2"].cookies

----------------------------------------------------------------------------
(* Properties of the registration form (specification Spec) *)

\* the REGISTRATION_EXTRA_FIELDS value in force: the site configuration's,
\* or the Django setting
configured_extra_fields ==
    IF DOMAIN site_extra_fields = {} THEN settings_extra_fields ELSE site_extra_fields

FieldNames(fields) == {fields[i].name : i \in 1..Len(fields)}

\* C1 as stated: construction fails exactly when some key f of
\* REGISTRATION_EXTRA_FIELDS has a value outside {required, optional, hidden}.
C1_AnyKeyInvalidFails ==
    view.state # "none" =>
        (view.state = "ImproperlyConfigured"
            <=> \E f \in DOMAIN configured_extra_fields :
                    configured_extra_fields[f] \notin VISIBILITY)

\* C1 (amended): construction fails with ImproperlyConfigured, and no view
\* instance serves a request, exactly when some field f of EXTRA_FIELDS has a
\* configured value outside {required, optional, hidden}; otherwise it succeeds.
C1_InvalidExtraFieldFails ==
    view.state # "none" =>
        /\ view.state = "ImproperlyConfigured"
              <=> \E f \in ToSet(EXTRA_FIELDS) \cap DOMAIN configured_extra_fields :
                      configured_extra_fields[f] \notin VISIBILITY
        /\ view.state = "ImproperlyConfigured" => form.status = "none"
        /\ view.state \in {"ImproperlyConfigured", "constructed"}

C1_Witness ==
    /\ view.state = "ImproperlyConfigured"
    /\ DictGet(configured_extra_fields, "country", "hidden") = "mandatory"

\* C2: the form description RegistrationView.get returns contains each of the
\* default fields email, name, username and password.
C2_DefaultFieldsPresent ==
    form.status = "ok" => ToSet(DEFAULT_FIELDS) \subseteq FieldNames(form.fields)

C2_Witness ==
    /\ form.status = "ok"
    /\ provider_active(form.request)
    /\ settings_field_order = <<"username", "email">>
    /\ site_field_order = <<>>
    /\ extension_form = <<>>
    /\ ToSet(DEFAULT_FIELDS) \subseteq FieldNames(form.fields)

\* C3 as stated: every default field of the form description is marked
\* required, whether or not a third-party auth provider is active.
C3_DefaultFieldsRequired ==
    form.status = "ok" =>
        \A i \in 1..Len(form.fields) :
            form.fields[i].name \in ToSet(DEFAULT_FIELDS) => form.fields[i].required

\* C3 (amended): every default field of the form description is marked
\* required, except that password is marked not required when a third-party
\* auth provider is active for the request.
C3_DefaultFieldsRequiredButTpaPassword ==
    form.status = "ok" =>
        \A i \in 1..Len(form.fields) :
            form.fields[i].name \in ToSet(DEFAULT_FIELDS) =>
                (form.fields[i].required
                    <=> ~(form.fields[i].name = "password" /\ provider_active(form.request)))

C3_Witness ==
    /\ form.status = "ok"
    /\ provider_active(form.request)
    /\ extension_form # <<>>
    /\ \E i \in 1..Len(form.fields) :
           form.fields[i].name = "password" /\ ~form.fields[i].required
    /\ \E i \in 1..Len(form.fields) :
           form.fields[i].name = "email" /\ form.fields[i].required

\* the names of the form's fields, in the order of the form
NameSeq(fields) == [i \in 1..Len(fields) |-> fields[i].name]

\* seq without the elements outside keep
RECURSIVE Restrict(_, _)
Restrict(seq, keep) ==
    IF seq = <<>> THEN <<>>
    ELSE IF Head(seq) \in keep THEN <<Head(seq)>> \o Restrict(Tail(seq), keep)
    ELSE Restrict(Tail(seq), keep)

\* REGISTRATION_FIELD_ORDER as configured: the site configuration's, else the
\* Django setting's, else none
configured_field_order ==
    IF site_field_order # <<>> THEN site_field_order ELSE settings_field_order

\* the order the claim expects: the configured one when it names exactly the
\* valid fields, else DEFAULT_FIELDS followed by EXTRA_FIELDS
expected_field_order ==
    IF ToSet(configured_field_order) = ToSet(valid_fields)
    THEN configured_field_order ELSE valid_fields

\* C13: the registration fields of every form RegistrationView.get produces
\* follow the configured field order when it names exactly the valid fields,
\* and DEFAULT_FIELDS followed by EXTRA_FIELDS otherwise, also when an
\* extension form is configured.
C13_FieldsFollowConfiguredOrder ==
    form.status = "ok" =>
        Restrict(NameSeq(form.fields), ToSet(valid_fields))
            = Restrict(expected_field_order, FieldNames(form.fields))

\* the visibility in force for an extra field: its configured value, "required"
\* for an unconfigured honor_code, "None" when not configured
visibility(f) ==
    DictGet(configured_extra_fields, f, IF f = "honor_code" THEN "required" ELSE "None")

\* C14: an extra field appears in the form description if and only if its
\* visibility is required or optional, and is marked required exactly when it
\* is required; a hidden or unconfigured field (other than honor_code) is absent.
C14_ExtraFieldsFollowVisibility ==
    form.status = "ok" =>
        /\ \A f \in ToSet(EXTRA_FIELDS) :
              f \in FieldNames(form.fields) <=> visibility(f) \in {"required", "optional"}
        /\ \A i \in 1..Len(form.fields) :
              form.fields[i].name \in ToSet(EXTRA_FIELDS) =>
                  (form.fields[i].required <=> visibility(form.fields[i].name) = "required")

C14_Witness ==
    /\ form.status = "ok"
    /\ visibility("country") = "optional"
    /\ visibility("honor_code") = "hidden"
    /\ "country" \in FieldNames(form.fields)
    /\ "honor_code" \notin FieldNames(form.fields)
    /\ \E i \in 1..Len(form.fields) :
          form.fields[i].name = "country" /\ ~form.fields[i].required

\* C15: with a provider that skips the registration form, in an enterprise
\* context, every registration field except terms_of_service and honor_code
\* is hidden with blank label and instructions, also a field for which the
\* provider supplied no value or an empty one.
C15_AllFieldsHiddenOnSkip ==
    (/\ form.status = "ok"
     /\ provider_active(form.request)
     /\ form.request.skip_registration_form
     /\ form.request.enterprise_customer) =>
        \A i \in 1..Len(form.fields) :
            form.fields[i].name \in ToSet(valid_fields) \ {"terms_of_service", "honor_code"} =>
                /\ form.fields[i].type = "hidden"
                /\ form.fields[i].label = ""
                /\ form.fields[i].instructions = ""

\* C16: whenever a third-party auth provider is active, the password field has
\* type hidden, default "", required false, blank label and instructions and
\* empty restrictions, whatever the provider's form data and skip setting.
C16_PasswordHiddenWithProvider ==
    (form.status = "ok" /\ provider_active(form.request)) =>
        /\ "password" \in FieldNames(form.fields)
        /\ \A i \in 1..Len(form.fields) :
              form.fields[i].name = "password" =>
                  /\ form.fields[i].type = "hidden"
                  /\ form.fields[i].defaultValue = ""
                  /\ ~form.fields[i].required
                  /\ form.fields[i].label = ""
                  /\ form.fields[i].instructions = ""
                  /\ form.fields[i].restrictions = {}

C16_Witness ==
    /\ form.status = "ok"
    /\ provider_active(form.request)
    /\ ~form.request.skip_registration_form
    /\ DictGet(form.request.form_data, "password", "") = "secret"
    /\ \E i \in 1..Len(form.fields) :
          form.fields[i].name = "password" /\ form.fields[i].defaultValue = ""

\* the default a handler gives its field when nothing overrides it
handler_default(f) == IF f \in {"honor_code", "terms_of_service"} THEN PyFalse ELSE ""

\* C17 as stated: with an active provider, the default of every registration
\* field present in the provider's form data is the provider-supplied value;
\* a field absent from that data keeps its default (password excepted).
C17_ProviderValuesAreDefaults ==
    (form.status = "ok" /\ provider_active(form.request)) =>
        \A i \in 1..Len(form.fields) :
            LET f == form.fields[i].name
            IN  f \in ToSet(valid_fields) =>
                    IF f \in DOMAIN form.request.form_data
                    THEN form.fields[i].defaultValue = form.request.form_data[f]
                    ELSE f # "password" => form.fields[i].defaultValue = handler_default(f)

\* C17 (amended): with an active provider, the default of every registration
\* field present in the provider's form data is the provider-supplied value,
\* upper-cased for country, except that the default of password is always "";
\* a field absent from that data keeps its default.
C17_ProviderValuesAreDefaultsButPassword ==
    (form.status = "ok" /\ provider_active(form.request)) =>
        \A i \in 1..Len(form.fields) :
            LET f == form.fields[i].name
            IN  f \in ToSet(valid_fields) =>
                    form.fields[i].defaultValue =
                        IF f = "password" THEN ""
                        ELSE IF f \notin DOMAIN form.request.form_data THEN handler_default(f)
                        ELSE IF f = "country" THEN upper(form.request.form_data[f])
                        ELSE form.request.form_data[f]

C17_Witness ==
    /\ form.status = "ok"
    /\ provider_active(form.request)
    /\ DictGet(form.request.form_data, "country", "") = "fr"
    /\ \E i \in 1..Len(form.fields) :
          form.fields[i].name = "country" /\ form.fields[i].defaultValue = "FR"
    /\ \E i \in 1..Len(form.fields) :
          form.fields[i].name = "honor_code" /\ form.fields[i].defaultValue = "true"
    /\ \E i \in 1..Len(form.fields) :
          form.fields[i].name = "email" /\ form.fields[i].defaultValue = ""

\* a served request: get returned a form or raised
Served == form.status # "none"

\* C18 as stated: with an extension form, get fails with a configuration error
\* when the class of some declared field has no entry in FIELD_TYPE_MAP; when
\* every class has one, each declared field is added with the mapped type.
C18_UnmappedClassFails ==
    (Served /\ extension_form # <<>>) =>
        IF \E j \in 1..Len(extension_form) : extension_form[j].class \notin DOMAIN FIELD_TYPE_MAP
        THEN form.status = "ImproperlyConfigured"
        ELSE /\ form.status = "ok"
             /\ \A j \in 1..Len(extension_form) :
                   \E i \in 1..Len(form.fields) :
                       /\ form.fields[i].name = extension_form[j].name
                       /\ form.fields[i].type = FIELD_TYPE_MAP[extension_form[j].class]

\* the wire type declared for a field of the extension form: the field_type of
\* its serialization options when they give one, else the entry of its class,
\* else none
declared_type(field) ==
    IF field.field_type_option # PyNone THEN field.field_type_option
    ELSE IF field.class \in DOMAIN FIELD_TYPE_MAP THEN FIELD_TYPE_MAP[field.class]
    ELSE PyNone

\* the declared wire type is missing or empty
Untyped(field) == declared_type(field) \in {PyNone, ""}

\* the declared fields that cannot be added: untyped, or of a wire type that
\* the form description does not allow
FailingFields ==
    {j \in 1..Len(extension_form) :
        \/ Untyped(extension_form[j])
        \/ declared_type(extension_form[j]) \notin ALLOWED_TYPES}

\* C18 (amended): with an extension form, the wire type of a declared field is
\* the field_type of the form's serialization options when they give one, else
\* the FIELD_TYPE_MAP entry of its class.  get fails at the first declared
\* field, in declaration order, whose wire type is missing or empty (a
\* configuration error) or is no type the form description allows (an invalid
\* field error); when there is no such field, each declared field is added
\* with its wire type.
C18_UntypedFieldFails ==
    (Served /\ extension_form # <<>>) =>
        IF FailingFields # {}
        THEN LET first == CHOOSE j \in FailingFields :
                              \A k \in FailingFields : j <= k
             IN  /\ form.fields = <<>>
                 /\ form.status = IF Untyped(extension_form[first])
                                  THEN "ImproperlyConfigured"
                                  ELSE "InvalidFieldError"
        ELSE /\ form.status = "ok"
             /\ \A j \in 1..Len(extension_form) :
                   \E i \in 1..Len(form.fields) :
                       /\ form.fields[i].name = extension_form[j].name
                       /\ form.fields[i].type = declared_type(extension_form[j])

C18_Witness ==
    /\ form.status = "ok"
    /\ Len(extension_form) = 2
    /\ extension_form[1].class = "IntegerField"
    /\ \E i \in 1..Len(form.fields) :
          form.fields[i].name = "age" /\ form.fields[i].type = "text"
    /\ \E i \in 1..Len(form.fields) :
          form.fields[i].name = "favorite_movie" /\ form.fields[i].type = "textarea"

\* the honor_code fields of the form
HonorCodeFields == {i \in 1..Len(form.fields) : form.fields[i].name = "honor_code"}

\* C22: when the extra-fields configuration has no honor_code entry the form
\* contains honor_code marked required; the form's honor_code is not required
\* only when the configuration sets honor_code to optional, and then it is not.
C22_HonorCodeRequiredByDefault ==
    form.status = "ok" =>
        /\ "honor_code" \notin DOMAIN configured_extra_fields =>
               \E i \in HonorCodeFields : form.fields[i].required
        /\ \A i \in HonorCodeFields :
               ~form.fields[i].required <=>
                   DictGet(configured_extra_fields, "honor_code", "None") = "optional"
        /\ DictGet(configured_extra_fields, "honor_code", "None") = "optional" =>
               HonorCodeFields # {}

C22_Witness ==
    /\ form.status = "ok"
    /\ "honor_code" \notin DOMAIN configured_extra_fields
    /\ "country" \in DOMAIN configured_extra_fields
    /\ \E i \in HonorCodeFields : form.fields[i].required

\* C23: when third-party auth is disabled, or no pipeline is running, or the
\* pipeline resolves to no provider, the form is as its handlers build it: no
\* registration field is hidden or given another default and there is no
\* social_auth_provider field.  The hidden social_auth_provider field is
\* present exactly when auth is enabled, a pipeline runs and it resolves to a
\* provider, with the provider's name, or "Third Party" for an empty name, as
\* its default.
C23_OverridesOnlyWithProvider ==
    form.status = "ok" =>
        LET active == /\ form.request.enabled
                      /\ form.request.running_pipeline
                      /\ form.request.has_provider
        IN  /\ "social_auth_provider" \in FieldNames(form.fields) <=> active
            /\ \A i \in 1..Len(form.fields) :
                  form.fields[i].name = "social_auth_provider" =>
                      /\ form.fields[i].type = "hidden"
                      /\ form.fields[i].label = ""
                      /\ ~form.fields[i].required
                      /\ form.fields[i].defaultValue =
                             IF form.request.name # "" THEN form.request.name
                             ELSE "Third Party"
            /\ ~active =>
                  \A i \in 1..Len(form.fields) :
                      form.fields[i].name \in ToSet(valid_fields) =>
                          /\ form.fields[i].type # "hidden"
                          /\ form.fields[i].label # ""
                          /\ form.fields[i].defaultValue
                                 = handler_default(form.fields[i].name)
                          /\ form.fields[i].name = "password" =>
                                 /\ form.fields[i].type = "password"
                                 /\ form.fields[i].required

C23_Witness ==
    /\ form.status = "ok"
    /\ ~form.request.enabled
    /\ form.request.running_pipeline
    /\ form.request.has_provider
    /\ DictGet(form.request.form_data, "email", "") = "ann@example.com"
    /\ "social_auth_provider" \notin FieldNames(form.fields)
    /\ \E i \in 1..Len(form.fields) :
          form.fields[i].name = "email" /\ form.fields[i].defaultValue = ""

\* C24: without an extension form, each field name appears at most once in
\* the form, for every field order the constructor accepts, also one that
\* lists a field more than once.
C24_FieldNamesUnique ==
    (form.status = "ok" /\ extension_form = <<>>) =>
        \A i, j \in 1..Len(form.fields) :
            form.fields[i].name = form.fields[j].name => i = j

-----------------------------------------------------------------------------
(* Preference and directory endpoints: UserViewSet, ForumRoleUsersListView, *)
(* UserPreferenceViewSet, PreferenceUsersListView,                          *)
(* UpdateEmailOptInPreference and CountryTimeZoneListView.  Requests come   *)
(* from authenticated users, named by their username.                       *)

InvalidKeyError == "InvalidKeyError"

\* a parsed course key; error is InvalidKeyError when the string is no key
CourseKey(org, course, run) == [error |-> "", org |-> org, course |-> course, run |-> run]

NoKey == [error |-> InvalidKeyError, org |-> "", course |-> "", run |-> ""]

\* str.lower(), on the strings the model supplies as email_opt_in
lower(s) ==
    CASE s \in {"true", "True", "TRUE"} -> "true"
      [] s \in {"false", "False"} -> "false"
      [] OTHER -> s

\* locator.CourseLocator.from_string: the parsed course key, or InvalidKeyError
CourseLocator_from_string(course_id) ==
    CASE course_id = "course-v1:edX+DemoX+2017" ->
             CourseKey("edX", "DemoX", "2017")
      [] course_id = "course-v1:edX+CS101+2018" ->
             CourseKey("edX", "CS101", "2018")
      [] course_id = "course-v1:MITx+6.00x+2017" ->
             CourseKey("MITx", "6.00x", "2017")
      [] OTHER -> NoKey

\* SlashSeparatedCourseKey.from_deprecated_string: the parsed course key, or
\* InvalidKeyError
from_deprecated_string(course_id_string) ==
    CASE course_id_string = "edX/DemoX/2017" ->
             CourseKey("edX", "DemoX", "2017")
      [] course_id_string = "MITx/6.00x/2017" ->
             CourseKey("MITx", "6.00x", "2017")
      [] OTHER -> NoKey

\* require_post_params: the required parameters the request lacks
missing_post_params(required, data) == {param \in required : param \notin DOMAIN data}

\* update_email_opt_in(user, org, opt_in): creates the opt-in preference of
\* the user for the organization, or replaces its value
update_email_opt_in(rows, user, org, opt_in) ==
    {r \in rows : ~(r.user = user /\ r.org = org)}
        \cup {[user |-> user, org |-> org, value |-> opt_in]}

\* variant: only the exact string "true" opts in
email_opt_in_exact(s) == s = "true"

\* variant: every non-empty string opts in
email_opt_in_truthy(s) == Truthy(s)

\* request.data['email_opt_in'].lower() == 'true'
email_opt_in_value(s) == lower(s) = "true"

\* variant: the preference is written before the course id is parsed, for
\* the organization the raw course id names
opt_in_post_write_first(rows, user, data) ==
    IF missing_post_params({"course_id", "email_opt_in"}, data) # {}
    THEN [response |-> ApiResponse("email_opt_in", [user |-> user, data |-> data],
                                  400, "text/html",
                                  missing_post_params({"course_id", "email_opt_in"}, data)),
          rows |-> rows]
    ELSE LET key == CourseLocator_from_string(data["course_id"])
             org == IF key.error # "" THEN data["course_id"] ELSE key.org
             written == update_email_opt_in(rows, user, org,
                                            email_opt_in_value(data["email_opt_in"]))
         IN  IF key.error # ""
             THEN [response |-> ApiResponse("email_opt_in", [user |-> user, data |-> data],
                                            400, "text/plain", {data["course_id"]}),
                   rows |-> written]
             ELSE [response |-> ApiResponse("email_opt_in", [user |-> user, data |-> data],
                                            200, "text/html", {}),
                   rows |-> written]

\* UpdateEmailOptInPreference.post with its require_post_params decorator:
\* the response and the opt-in preferences it leaves.  The body of a 400 is
\* the set of missing parameters, or the course id its message names
opt_in_post(rows, user, data) ==
    IF missing_post_params({"course_id", "email_opt_in"}, data) # {}
    THEN [response |-> ApiResponse("email_opt_in", [user |-> user, data |-> data],
                                  400, "text/html",
                                  missing_post_params({"course_id", "email_opt_in"}, data)),
          rows |-> rows]
    ELSE LET key == CourseLocator_from_string(data["course_id"])
         IN  IF key.error # ""
             THEN [response |-> ApiResponse("email_opt_in", [user |-> user, data |-> data],
                                            400, "text/plain", {data["course_id"]}),
                   rows |-> rows]
             ELSE [response |-> ApiResponse("email_opt_in", [user |-> user, data |-> data],
                                            200, "text/html", {}),
                   rows |-> update_email_opt_in(rows, user, key.org,
                                                email_opt_in_value(data["email_opt_in"]))]

\* Role.objects.get_or_create(course_id=course_id, name=name): the matching
\* row, created without users when there is none, and the rows afterwards
get_or_create(rows, course_id, name) ==
    IF \E r \in rows : r.course_id = course_id /\ r.name = name
    THEN [row |-> CHOOSE r \in rows : r.course_id = course_id /\ r.name = name,
          rows |-> rows]
    ELSE LET created == [course_id |-> course_id, name |-> name, users |-> {}]
         IN  [row |-> created, rows |-> rows \cup {created}]

\* ForumRoleUsersListView.get_queryset
forum_role_users(rows, name, query_params) ==
    LET course_id_string == DictGet(query_params, "course_id", "")
    IN  IF ~Truthy(course_id_string)
        THEN [error |-> "ParseError", users |-> {}, rows |-> rows]
        ELSE LET course_id == from_deprecated_string(course_id_string)
             IN  IF course_id.error # ""
                 THEN [error |-> InvalidKeyError, users |-> {}, rows |-> rows]
                 ELSE LET role == get_or_create(rows, course_id, name)
                      IN  [error |-> "", users |-> role.row.users, rows |-> role.rows]

\* User.objects.all(), each user in the serializer's form
all_users(accts) == {accts[i].username : i \in 1..Len(accts)}

\* PreferenceUsersListView.get_queryset: the users that have a preference
\* with the key
preference_users(accts, prefs, pref_key) ==
    {u \in all_users(accts) : \E r \in prefs : r.user = u /\ r.key = pref_key}

\* UserPreferenceViewSet: the preferences, filtered on the fields key and user
\* that the query names
filtered_preferences(prefs, query_params) ==
    {r \in prefs :
        /\ "key" \in DOMAIN query_params => r.key = query_params["key"]
        /\ "user" \in DOMAIN query_params => r.user = query_params["user"]}

\* the time zones of the time zone table
common_timezones ==
    {"America/Chicago", "America/New_York", "Asia/Tokyo", "Europe/Paris"}

\* the time zones the table associates with a country
country_timezones(country_code) ==
    CASE country_code = "FR" -> {"Europe/Paris"}
      [] country_code = "JP" -> {"Asia/Tokyo"}
      [] country_code = "US" -> {"America/Chicago", "America/New_York"}

\* get_country_time_zones(country_code): every time zone without a country
\* code, the country's time zones with one, whatever its case
get_country_time_zones(country_code) ==
    IF country_code = PyNone THEN common_timezones
    ELSE country_timezones(upper(country_code))

\* variant: the country code of the query is not read
time_zone_queryset_all(GET) == get_country_time_zones(PyNone)

\* CountryTimeZoneListView.get_queryset
time_zone_queryset(GET) == get_country_time_zones(DictGet(GET, "country_code", PyNone))

-----------------------------------------------------------------------------
(* The requests the endpoints receive *)

\* the users of the directory
ApiAccounts ==
    <<[email |-> "ann@example.com", username |-> "ann"],
      [email |-> "bob@example.com", username |-> "bob"]>>

ApiUsers == {"ann", "bob"}

InitialPreferences ==
    {[user |-> "ann", key |-> "time_zone", value |-> "Asia/Tokyo"],
     [user |-> "ann", key |-> "pref-lang", value |-> "fr"],
     [user |-> "bob", key |-> "time_zone", value |-> "Europe/Paris"]}

InitialRoles ==
    {[course_id |-> CourseKey("edX", "DemoX", "2017"), name |-> "Moderator",
      users |-> {"ann"}]}

\* request.data of an opt-in update
OptInData ==
    {DictUpdate(a, b) :
        a \in Dicts({"course_id"},
                    {"course-v1:edX+DemoX+2017", "course-v1:edX+CS101+2018",
                     "course-v1:MITx+6.00x+2017", "edX-DemoX"}),
        b \in Dicts({"email_opt_in"}, {"true", "True", "TRUE", "false", "yes", "1", ""})}

RoleNames == {"Moderator", "Student"}

RoleQueries ==
    {EmptyDict, [course_id |-> ""], [course_id |-> "edX/DemoX/2017"],
     [course_id |-> "MITx/6.00x/2017"], [course_id |-> "bogus"]}

PreferenceKeys == {"time_zone", "pref-lang", "dark-mode"}

PreferenceQueries ==
    {EmptyDict, [key |-> "time_zone"], [user |-> "ann"],
     [key |-> "pref-lang", user |-> "bob"]}

TimeZoneQueries ==
    {EmptyDict, [country_code |-> "FR"], [country_code |-> "fr"],
     [country_code |-> "US"], [country_code |-> "JP"]}

-----------------------------------------------------------------------------
(* The endpoints as a state machine.  api_key: ApiKeyHeaderPermission grants *)
(* the request; a request it refuses is answered 403 before the view's       *)
(* queryset is read.                                                         *)

InitApi ==
    /\ site_extra_fields = EmptyDict
    /\ settings_extra_fields = EmptyDict
    /\ site_field_order = <<>>
    /\ settings_field_order = <<>>
    /\ extension_form = <<>>
    /\ view = DefaultView
    /\ form = NoForm
    /\ accounts = ApiAccounts
    /\ pc = EmptyDict
    /\ submission = EmptyDict
    /\ response = EmptyDict
    /\ preferences = InitialPreferences
    /\ email_opt_ins = {}
    /\ roles = InitialRoles
    /\ api_response = NoApiResponse

Forbidden(endpoint, request) ==
    ApiResponse(endpoint, request, 403, "application/json", {})

\* UserViewSet, list
UserList(api_key) ==
    /\ LET request == [api_key |-> api_key]
       IN  api_response' =
               IF api_key
               THEN ApiResponse("users", request, 200, "application/json",
                                all_users(accounts))
               ELSE Forbidden("users", request)
    /\ UNCHANGED <<preferences, email_opt_ins, roles>>
    /\ UNCHANGED formVars
    /\ UNCHANGED postVars

\* ForumRoleUsersListView, get: ParseError is answered 400, InvalidKeyError
\* is not caught
ForumRoleUsersList(api_key, name, query_params) ==
    /\ LET request == [api_key |-> api_key, name |-> name,
                       query_params |-> query_params]
           q == forum_role_users(roles, name, query_params)
       IN  IF api_key
           THEN /\ roles' = q.rows
                /\ api_response' =
                       IF q.error = "ParseError"
                       THEN ApiResponse("forum_role_users", request, 400,
                                        "application/json", {})
                       ELSE IF q.error # ""
                       THEN ApiResponse("forum_role_users", request, 500,
                                        "exception", {})
                       ELSE ApiResponse("forum_role_users", request, 200,
                                        "application/json", q.users)
           ELSE /\ roles' = roles
                /\ api_response' = Forbidden("forum_role_users", request)
    /\ UNCHANGED <<preferences, email_opt_ins>>
    /\ UNCHANGED formVars
    /\ UNCHANGED postVars

\* UserPreferenceViewSet, list
UserPreferenceList(api_key, query_params) ==
    /\ LET request == [api_key |-> api_key, query_params |-> query_params]
       IN  api_response' =
               IF api_key
               THEN ApiResponse("user_preferences", request, 200, "application/json",
                                filtered_preferences(preferences, query_params))
               ELSE Forbidden("user_preferences", request)
    /\ UNCHANGED <<preferences, email_opt_ins, roles>>
    /\ UNCHANGED formVars
    /\ UNCHANGED postVars

\* PreferenceUsersListView, get
PreferenceUsersList(api_key, pref_key) ==
    /\ LET request == [api_key |-> api_key, pref_key |-> pref_key]
       IN  api_response' =
               IF api_key
               THEN ApiResponse("preference_users", request, 200, "application/json",
                                preference_users(accounts, preferences, pref_key))
               ELSE Forbidden("preference_users", request)
    /\ UNCHANGED <<preferences, email_opt_ins, roles>>
    /\ UNCHANGED formVars
    /\ UNCHANGED postVars

\* UpdateEmailOptInPreference.post, by request.user
OptInPost(user, data) ==
    /\ LET done == opt_in_post(email_opt_ins, user, data)
       IN  /\ email_opt_ins' = done.rows
           /\ api_response' = done.response
    /\ UNCHANGED <<preferences, roles>>
    /\ UNCHANGED formVars
    /\ UNCHANGED postVars

\* CountryTimeZoneListView, get
CountryTimeZoneList(GET) ==
    /\ api_response' = ApiResponse("time_zones", GET, 200, "application/json",
                                   time_zone_queryset(GET))
    /\ UNCHANGED <<preferences, email_opt_ins, roles>>
    /\ UNCHANGED formVars
    /\ UNCHANGED postVars

NextApi ==
    \/ \E api_key \in BOOLEAN : UserList(api_key)
    \/ \E api_key \in BOOLEAN, name \in RoleNames, query_params \in RoleQueries :
           ForumRoleUsersList(api_key, name, query_params)
    \/ \E api_key \in BOOLEAN, query_params \in PreferenceQueries :
           UserPreferenceList(api_key, query_params)
    \/ \E api_key \in BOOLEAN, pref_key \in PreferenceKeys :
           PreferenceUsersList(api_key, pref_key)
    \/ \E user \in ApiUsers, data \in OptInData : OptInPost(user, data)
    \/ \E GET \in TimeZoneQueries : CountryTimeZoneList(GET)

SpecApi == InitApi /\ [][NextApi]_vars

-----------------------------------------------------------------------------
(* Properties of the preference and directory endpoints (specification      *)
(* SpecApi)                                                                  *)

\* the request carries both parameters that require_post_params demands
Complete(data) == {"course_id", "email_opt_in"} \subseteq DOMAIN data

\* the last request was an opt-in update carrying both parameters
OptInServed(resp) == resp.endpoint = "email_opt_in" /\ Complete(resp.request.data)

\* C11: an opt-in update carrying both parameters whose course_id cannot be
\* parsed is answered 400 with a plain-text message naming the course id, and
\* leaves every stored preference unchanged: update_email_opt_in is not called.
C11_UnparsableCourseIdRejected ==
    [][(/\ OptInServed(api_response')
        /\ CourseLocator_from_string(api_response'.request.data["course_id"]).error
               = InvalidKeyError) =>
           /\ api_response'.status = 400
           /\ api_response'.content_type = "text/plain"
           /\ api_response'.body = {api_response'.request.data["course_id"]}
           /\ email_opt_ins' = email_opt_ins
           /\ preferences' = preferences
      ]_vars

C11_Witness ==
    /\ OptInServed(api_response)
    /\ api_response.request.data["course_id"] = "edX-DemoX"
    /\ api_response.status = 400
    /\ api_response.content_type = "text/plain"
    /\ email_opt_ins # {}

\* the opt-in preferences other than that of the user for the organization
OtherOptIns(rows, user, org) == {r \in rows : ~(r.user = user /\ r.org = org)}

\* C12: each (user, organization) pair has at most one opt-in preference; a
\* successful update leaves the pair with the boolean of that update (true
\* when the lower-cased email_opt_in is "true") and leaves the preferences of
\* other users and of other organizations unchanged.
C12_OneOptInPerUserAndOrg ==
    /\ [](\A r1, r2 \in email_opt_ins :
             (r1.user = r2.user /\ r1.org = r2.org) => r1 = r2)
    /\ [][(api_response'.endpoint = "email_opt_in" /\ api_response'.status = 200) =>
             LET user == api_response'.request.user
                 data == api_response'.request.data
                 org == CourseLocator_from_string(data["course_id"]).org
             IN  /\ [user |-> user, org |-> org,
                     value |-> (lower(data["email_opt_in"]) = "true")]
                        \in email_opt_ins'
                 /\ OtherOptIns(email_opt_ins', user, org)
                        = OtherOptIns(email_opt_ins, user, org)
                 /\ preferences' = preferences
         ]_vars

C12_Witness ==
    /\ api_response.endpoint = "email_opt_in"
    /\ api_response.status = 200
    /\ api_response.request.user = "ann"
    /\ api_response.request.data["course_id"] = "course-v1:edX+CS101+2018"
    /\ api_response.request.data["email_opt_in"] = "yes"
    /\ email_opt_ins = {[user |-> "ann", org |-> "edX", value |-> FALSE],
                        [user |-> "ann", org |-> "MITx", value |-> TRUE],
                        [user |-> "bob", org |-> "edX", value |-> TRUE]}

\* the listing endpoints
Listings == {"users", "forum_role_users", "user_preferences", "preference_users"}

\* C19: serving a listing request of UserViewSet, ForumRoleUsersListView,
\* UserPreferenceViewSet or PreferenceUsersListView creates, changes and
\* deletes no persisted record, also for a role/course pair without a role.
C19_ListingsReadOnly ==
    [][api_response'.endpoint \in Listings =>
           UNCHANGED <<accounts, preferences, email_opt_ins, roles>>]_vars

\* C20: the time-zone listing answers the time zones of the country when
\* country_code is given (only Europe/Paris for FR) and every time zone when
\* it is omitted.
C20_TimeZonesOfCountry ==
    api_response.endpoint = "time_zones" =>
        LET GET == api_response.request
        IN  /\ api_response.status = 200
            /\ "country_code" \notin DOMAIN GET =>
                   api_response.body = common_timezones
            /\ "country_code" \in DOMAIN GET =>
                   api_response.body = country_timezones(upper(GET["country_code"]))
            /\ DictGet(GET, "country_code", "") = "FR" =>
                   api_response.body = {"Europe/Paris"}

C20_Witness ==
    /\ api_response.endpoint = "time_zones"
    /\ DictGet(api_response.request, "country_code", "") = "FR"
    /\ api_response.status = 200
    /\ api_response.body = {"Europe/Paris"}

\* the opt-in value stored for the user and organization of the last request
StoredOptIn(resp) ==
    LET org == CourseLocator_from_string(resp.request.data["course_id"]).org
    IN  {r.value : r \in {row \in email_opt_ins :
                             row.user = resp.request.user /\ row.org = org}}

\* C21: the opt-in value that UpdateEmailOptInPreference.post stores is true
\* exactly when the submitted email_opt_in equals "true" ignoring case; every
\* other string ("1", "yes", "" among them) stores false.
C21_TrueIgnoringCaseOnly ==
    (api_response.endpoint = "email_opt_in" /\ api_response.status = 200) =>
        StoredOptIn(api_response)
            = {api_response.request.data["email_opt_in"] \in {"true", "True", "TRUE"}}

C21_Witness ==
    /\ api_response.endpoint = "email_opt_in"
    /\ api_response.status = 200
    /\ api_response.request.user = "bob"
    /\ api_response.request.data["email_opt_in"] = "1"
    /\ [user |-> "bob", org |-> "MITx", value |-> FALSE] \in email_opt_ins
    /\ [user |-> "ann", org |-> "MITx", value |-> TRUE] \in email_opt_ins
    /\ api_response.request.data["course_id"] = "course-v1:MITx+6.00x+2017"

====
